---------------------------- MODULE Spec2Model ----------------------------
(***************************************************************************)
(* A model of the greyhound protocol of lopocs (src/lopocs/greyhound.py):  *)
(* the octree hierarchy builder with its disk cache, the point read with   *)
(* its output-schema lookup, and the binary read frame.                    *)
(*                                                                         *)
(* Five specifications share the variables:                               *)
(*   SpecSplit  the octant split of a bounding box, as a pure function;    *)
(*   SpecKey    the name of the cache file, as a pure function;            *)
(*   SpecHier   GreyhoundHierarchy requests served one at a time;          *)
(*   SpecHierC  GreyhoundHierarchy requests served concurrently;           *)
(*   SpecRead   GreyhoundRead requests served concurrently.                *)
(*                                                                         *)
(* lopocs/utils.py, lopocs/database.py and lopocs/conf.py are not part of  *)
(* the sources at hand: what the model needs of them (the patch codec,     *)
(* the cache file helpers, Session.query, Session.add_output_schema) is    *)
(* modelled from the specification and marked so where it is defined.      *)
(***************************************************************************)
EXTENDS Integers, Sequences, FiniteSets, TLC

VARIABLES
    box,        \* SpecSplit: the bounding box handed to the builders
    kids,       \* SpecSplit: the child boxes each builder derives from it;
                \* SpecKey: the cache files of two requests
    cfg,        \* the dataset and the server configuration (fixed in a run)
    cache,      \* the hierarchy cache: file name -> stored tree
    hreq,       \* the Hierarchy requests, one record per serving thread
    outputs,    \* session.lopocstable.outputs: the registered OutputSchemas
    rreq,       \* the Read requests, one record per serving thread
    nstarted    \* the number of requests received so far

vars == <<box, kids, cfg, cache, hreq, outputs, rreq, nstarted>>

(***************************************************************************)
(* Bounds of the model.                                                    *)
(***************************************************************************)
\* Significant bits of the binary floating-point numbers of the model
\* (Python floats round every +, - and * to 53 bits; the model to these).
Mantissa == 3
\* Largest absolute X coordinate of a box handed to the split.
MaxCoord == 12
\* Largest Y and Z coordinate of a box handed to the split.
MaxYZ == 4

(***************************************************************************)
(* Floating-point arithmetic.  Numbers are integers; fl rounds one to the  *)
(* nearest number with Mantissa significant bits, ties to even, which is   *)
(* what every float operation of the code does to its exact result.        *)
(***************************************************************************)
Abs(v) == IF v < 0 THEN -v ELSE v

RECURSIVE Ulp(_, _)
\* the weight of the last of the Mantissa significant bits of a
Ulp(a, u) == IF a \div u < 2 ^ Mantissa THEN u ELSE Ulp(a, 2 * u)

\* v rounded to a multiple of u, ties to the even multiple
RoundTo(v, u) ==
    LET q == Abs(v) \div u
        r == Abs(v) % u
        m == (IF 2 * r > u \/ (2 * r = u /\ q % 2 = 1) THEN q + 1 ELSE q) * u
    IN  IF v < 0 THEN -m ELSE m

fl(v) == IF Abs(v) < 2 ^ Mantissa THEN v ELSE RoundTo(v, Ulp(Abs(v), 2))

\* a + b, a - b and a * b as floats
fadd(a, b) == fl(a + b)
fsub(a, b) == fl(a - b)
fmul(a, b) == fl(a * b)
\* a / 2: exact in binary floating point.  The boxes of the model are kept on
\* a grid on which the halves are integers.
half(a) == a \div 2

(***************************************************************************)
(* The octants.  A box is <<xmin, ymin, zmin, xmax, ymax, zmax>>: bbox[i]  *)
(* of the code is b[i + 1] here.                                           *)
(***************************************************************************)
Codes == <<"nwd", "nwu", "ned", "neu", "swd", "swu", "sed", "seu">>
CodeSet == {Codes[i] : i \in 1..Len(Codes)}

\* build_hierarchy_from_pg: the boxes of the eight futures
SplitPar(b) ==
    LET width == fsub(b[4], b[1])
        length == fsub(b[5], b[2])
        height == fsub(b[6], b[3])
        up == b[6]
        middle == fsub(up, half(height))
        down == b[3]
        x == b[1]
        y == b[2]
    IN  [nwd |-> <<x, fadd(y, half(length)), down,
                   fadd(x, half(width)), fadd(y, length), middle>>,
         nwu |-> <<x, fadd(y, half(length)), middle,
                   fadd(x, half(width)), fadd(y, length), up>>,
         ned |-> <<fadd(x, half(width)), fadd(y, half(length)), down,
                   fadd(x, width), fadd(y, length), middle>>,
         neu |-> <<fadd(x, half(width)), fadd(y, half(length)), middle,
                   fadd(x, width), fadd(y, length), up>>,
         swd |-> <<x, y, down,
                   fadd(x, half(width)), fadd(y, half(length)), middle>>,
         swu |-> <<x, y, middle,
                   fadd(x, half(width)), fadd(y, half(length)), up>>,
         sed |-> <<fadd(x, half(width)), y, down,
                   fadd(x, width), fadd(y, half(length)), middle>>,
         seu |-> <<fadd(x, half(width)), y, middle,
                   fadd(x, width), fadd(y, half(length)), up>>]

\* build_hierarchy_from_pg_single: the boxes of the eight recursive calls
SplitSeq(b) ==
    LET width == fsub(b[4], b[1])
        length == fsub(b[5], b[2])
        height == fsub(b[6], b[3])
        up == b[6]
        middle == fsub(up, half(height))
        down == b[3]
        x == b[1]
        y == b[2]
    IN  [nwd |-> <<x, fadd(y, half(length)), down,
                   fadd(x, half(width)), fadd(y, length), middle>>,
         nwu |-> <<x, fadd(y, half(length)), middle,
                   fadd(x, half(width)), fadd(y, length), up>>,
         ned |-> <<fadd(x, half(width)), fadd(y, half(length)), down,
                   fadd(x, width), fadd(y, length), middle>>,
         neu |-> <<fadd(x, half(width)), fadd(y, half(length)), middle,
                   fadd(x, width), fadd(y, length), up>>,
         swd |-> <<x, y, down,
                   fadd(x, half(width)), fadd(y, half(length)), middle>>,
         swu |-> <<x, y, middle,
                   fadd(x, half(width)), fadd(y, half(length)), up>>,
         sed |-> <<fadd(x, half(width)), y, down,
                   fadd(x, width), fadd(y, half(length)), middle>>,
         seu |-> <<fadd(x, half(width)), y, middle,
                   fadd(x, width), fadd(y, half(length)), up>>]


(***************************************************************************)
(* Bounds and configuration of the hierarchy model.                        *)
(***************************************************************************)
\* The largest Session.pool.maxconn (POOL_SIZE) of a configuration.
MaxConn == 2
\* The number of requests received in a run.
MaxRequests == 2
\* The number of settings in which a configuration departs from the default.
MaxKnobs == 1
\* Config.DEPTH: the deepest level of detail served is DEPTH - 1.
DEPTH == 3
\* The largest depthEnd a request asks for.
MaxDepthEnd == 12
\* LOADER_GREYHOUND_MIN_DEPTH
LOADER_GREYHOUND_MIN_DEPTH == 8

Reqs == {1, 2}

(***************************************************************************)
(* Bytes.  uint32 words in either byte order.                              *)
(***************************************************************************)
LE32(n) == <<n % 256, (n \div 256) % 256, (n \div 65536) % 256,
             (n \div 16777216) % 256>>
BE32(n) == <<(n \div 16777216) % 256, (n \div 65536) % 256,
             (n \div 256) % 256, n % 256>>
FromLE(w) == w[1] + 256 * w[2] + 65536 * w[3] + 16777216 * w[4]
FromBE(w) == w[4] + 256 * w[3] + 65536 * w[2] + 16777216 * w[1]

(***************************************************************************)
(* The patch codec of lopocs/utils.py, from the specification (sections 3  *)
(* and 4.2).  A patch is: byte 0 the endianness flag (1 little, 0 big),    *)
(* bytes 1..4 the type tag, 5..8 the pcid, 9..12 the point count, 13..16   *)
(* the payload length, 17.. the payload.                                   *)
(***************************************************************************)
HeaderLen == 17

\* the store's encoder of a patch
MkWkb(endian, pcid, count, payload) ==
    LET w(n) == IF endian = 1 THEN LE32(n) ELSE BE32(n)
    IN  <<endian>> \o w(0) \o w(pcid) \o w(count) \o w(Len(payload)) \o payload

\* npoints_from_wkb_pcpatch: the 4 bytes at offset 9, in the patch's byte order
npoints_from_wkb_pcpatch(wkb) ==
    IF wkb[1] = 1 THEN FromLE(SubSeq(wkb, 10, 13)) ELSE FromBE(SubSeq(wkb, 10, 13))

\* hexdata_from_wkb_pcpatch: the payload slice
hexdata_from_wkb_pcpatch(wkb) == SubSeq(wkb, HeaderLen + 1, Len(wkb))

\* hexa_signed_int32: the 4 bytes of the count footer, little-endian
hexa_signed_int32(n) == LE32(n)

(***************************************************************************)
(* The store.  A row of the patch table is a patch of pts points, all at   *)
(* (x, y, z), ranked in Morton order; morton is the row's Morton code.     *)
(* What a query returns is modelled from section 4.4.1 of the              *)
(* specification and from the SQL text the code builds.                    *)
(***************************************************************************)
Row(x, y, z, pts, m) == [x |-> x, y |-> y, z |-> z, pts |-> pts, morton |-> m]

Datasets ==
    { {},
      {Row(2, 2, 2, 7, 1)},
      {Row(2, 2, 2, 1, 1), Row(3, 3, 3, 6, 2)},
      {Row(4, 4, 4, 3, 1)} }

\* The result of session.query(sql)[0][0]
StoreError == [kind |-> "error"]
NoPatch == [kind |-> "none"]
Patch(wkb) == [kind |-> "patch", wkb |-> wkb]

RECURSIVE SumPow4(_)
\* sum of pow(4, i) for i in range(0, k)
SumPow4(k) == IF k <= 0 THEN 0 ELSE SumPow4(k - 1) + 4 ^ (k - 1)

\* sql_hierarchy: the point range, the Z range, the polygon and the limit
sql_hierarchy(b, lod) ==
    LET maxpp_patch == cfg.maxpp_patch
        maxpp_query == cfg.maxpp_query
        beg == SumPow4(lod)
        end == SumPow4(lod + 1)
    IN  [poly |-> <<b[1], b[2], b[4], b[5]>>,
         range_min |-> IF maxpp_patch # 0 THEN 0 ELSE beg,
         range_max |-> IF maxpp_patch # 0 THEN maxpp_patch ELSE end - beg,
         zmin |-> b[3],
         zmax |-> b[6],
         limit |-> maxpp_query,
         order_by_morton |-> cfg.USE_MORTON,
         box |-> b,
         lod |-> lod]

RECURSIVE ByMorton(_)
\* rows in increasing Morton order
ByMorton(S) ==
    IF S = {} THEN <<>>
    ELSE LET r == CHOOSE r \in S : \A o \in S : r.morton <= o.morton
         IN  <<r>> \o ByMorton(S \ {r})

Reverse(s) == [i \in 1..Len(s) |-> s[Len(s) + 1 - i]]

Min(a, b) == IF a <= b THEN a ELSE b
Max(a, b) == IF a >= b THEN a ELSE b

RECURSIVE SumSeq(_)
SumSeq(s) == IF s = <<>> THEN 0 ELSE Head(s) + SumSeq(Tail(s))

\* The orders in which the scan of a query may return its rows: any, when the
\* SQL has a LIMIT and no ORDER BY (two of them are modelled).
ScanOrders ==
    IF cfg.maxpp_query # 0 /\ ~cfg.USE_MORTON THEN {"asc", "desc"} ELSE {"asc"}

\* The number of points of pc_union(pc_filterbetween(pc_range(..))) over the
\* rows that intersect the polygon, at most `limit` of them.
QueryCount(sql, ord) ==
    LET hit == {r \in cfg.patches :
                    /\ sql.poly[1] <= r.x /\ r.x <= sql.poly[3]
                    /\ sql.poly[2] <= r.y /\ r.y <= sql.poly[4]}
        sorted == ByMorton(hit)
        rows == IF sql.order_by_morton \/ ord = "asc" THEN sorted ELSE Reverse(sorted)
        taken == IF sql.limit # 0 THEN SubSeq(rows, 1, Min(sql.limit, Len(rows)))
                 ELSE rows
        pts(r) == IF sql.zmin <= r.z /\ r.z <= sql.zmax
                  THEN Min(sql.range_max, Max(0, r.pts - sql.range_min))
                  ELSE 0
    IN  SumSeq([i \in 1..Len(taken) |-> pts(taken[i])])

\* Session.query(sql)[0][0] for a hierarchy query: a failure of the store, no
\* patch, or the aggregated patch.
session_query(sql, ord) ==
    IF sql.box \in cfg.faults THEN StoreError
    ELSE LET n == QueryCount(sql, ord)
         IN  IF n = 0 THEN NoPatch ELSE Patch(MkWkb(cfg.endian, 1, n, <<>>))

(***************************************************************************)
(* Hierarchy trees.  A Python dict with an optional 'n' and up to eight    *)
(* octant keys: n is <<>> (no 'n' key) or <<count>>; kids maps the octant  *)
(* keys present to their subtrees.                                         *)
(***************************************************************************)
EmptyTree == [n |-> <<>>, kids |-> <<>>]

\* truth value of a dict: False when it has no key
Truthy(h) == h.n # <<>> \/ DOMAIN h.kids # {}

\* the first lines of both builders: the node's own query
NodeCount(res, lod, lod_max) ==
    IF lod <= lod_max /\ res.kind = "patch" /\ res.wkb # <<>>
    THEN <<npoints_from_wkb_pcpatch(res.wkb)>>
    ELSE <<>>

\* `if h_xxx: hierarchy['xxx'] = h_xxx` of the sequential builder
AttachSeq(h, c, sub) == IF Truthy(sub) THEN [h EXCEPT !.kids = @ @@ (c :> sub)] ELSE h

RECURSIVE build_hierarchy_from_pg_single(_, _, _, _)
\* build_hierarchy_from_pg_single: [h: the tree returned, exc: whether a
\* query raised (the exception leaves the recursion), q: the queries issued]
build_hierarchy_from_pg_single(lod, lod_max, bbox, ord) ==
    LET res == session_query(sql_hierarchy(bbox, lod), ord)
        me == {<<bbox, lod>>}
        node == [n |-> NodeCount(res, lod, lod_max), kids |-> <<>>]
        bx == SplitSeq(bbox)
        RECURSIVE walk(_, _)
        walk(i, acc) ==
            IF i > Len(Codes) \/ acc.exc THEN acc
            ELSE LET c == Codes[i]
                     sub == build_hierarchy_from_pg_single(lod + 1, lod_max, bx[c], ord)
                 IN  walk(i + 1,
                          [h |-> IF sub.exc THEN acc.h ELSE AttachSeq(acc.h, c, sub.h),
                           exc |-> sub.exc,
                           q |-> acc.q \cup sub.q])
    IN  IF res.kind = "error" THEN [h |-> EmptyTree, exc |-> TRUE, q |-> me]
        ELSE IF lod + 1 <= lod_max
             THEN walk(1, [h |-> node, exc |-> FALSE, q |-> me])
             ELSE [h |-> node, exc |-> FALSE, q |-> me]


(***************************************************************************)
(* The hierarchy cache (read_in_cache, write_in_cache of lopocs/utils.py), *)
(* from section 4.5 of the specification: get returns the stored tree or   *)
(* nothing, put replaces the entry in one step.                            *)
(***************************************************************************)
\* read_in_cache: the tree of the entry, the empty dict when there is none
read_in_cache(filename) ==
    IF filename \in DOMAIN cache THEN cache[filename] ELSE EmptyTree

\* write_in_cache: the cache after the write
write_in_cache(h, filename) == (filename :> h) @@ cache

(***************************************************************************)
(* GreyhoundHierarchy.                                                     *)
(***************************************************************************)
\* str() of a number, '_'.join of a box
Str(v) == ToString(v)
JoinBox(b) == Str(b[1]) \o "_" \o Str(b[2]) \o "_" \o Str(b[3]) \o "_"
              \o Str(b[4]) \o "_" \o Str(b[5]) \o "_" \o Str(b[6])

\* a file name that leaves lod_max out
FilenameOfMin(table, column, lod_min, lod_max, bbox) ==
    IF lod_min = 0 /\ cfg.ROOT_HCY # ""
    THEN cfg.ROOT_HCY
    ELSE table \o "_" \o column \o "_" \o Str(lod_min) \o "_" \o JoinBox(bbox)
         \o ".hcy"

\* lines 164-169: the name of the cache file
Filename(table, column, lod_min, lod_max, bbox) ==
    IF lod_min = 0 /\ cfg.ROOT_HCY # ""
    THEN cfg.ROOT_HCY
    ELSE table \o "_" \o column \o "_" \o Str(lod_min) \o "_" \o Str(lod_max)
         \o "_" \o JoinBox(bbox) \o ".hcy"

\* lod_max as the request gives it
LodMaxAsked(depthEnd) == depthEnd - LOADER_GREYHOUND_MIN_DEPTH - 1

\* lines 146-150
LodMin(depthBegin) == depthBegin - LOADER_GREYHOUND_MIN_DEPTH
LodMax(depthEnd) ==
    LET lod_max == depthEnd - LOADER_GREYHOUND_MIN_DEPTH - 1
    IN  IF lod_max > cfg.DEPTH - 1 THEN cfg.DEPTH - 1 ELSE lod_max

\* lines 152-162: the box queried; offset is <<>> when the request has none
HierarchyBBox(bounds, scale, offset) ==
    IF offset # <<>>
    THEN <<fadd(fmul(bounds[1], scale), offset[1]),
           fadd(fmul(bounds[2], scale), offset[2]),
           fadd(fmul(bounds[3], scale), offset[3]),
           fadd(fmul(bounds[4], scale), offset[1]),
           fadd(fmul(bounds[5], scale), offset[2]),
           fadd(fmul(bounds[6], scale), offset[3])>>
    ELSE bounds

RootBox == <<0, 0, 0, 8, 8, 8>>

\* The requests of the model: what a client may send.
HierarchyParams ==
    LET ends == IF cfg.concurrent THEN 9..10 ELSE 9..MaxDepthEnd
        begins == IF cfg.concurrent THEN {8} ELSE 8..9
        geoms == {[bounds |-> RootBox, scale |-> 1, offset |-> <<>>]}
                 \cup (IF cfg.concurrent THEN {}
                       ELSE {[bounds |-> <<0, 0, 0, 4, 4, 4>>, scale |-> 2,
                              offset |-> <<0, 0, 0>>]})
    IN  {[table |-> "t", column |-> "c", depthBegin |-> b, depthEnd |-> e,
          bounds |-> g.bounds, scale |-> g.scale, offset |-> g.offset] :
            b \in begins, e \in ends, g \in geoms}

NoFutures == <<>>
IdleH ==
    [pc |-> "idle", p |-> <<>>, lod_min |-> 0, lod_max |-> 0, bbox |-> <<>>,
     filename |-> "", existed |-> FALSE, cached |-> EmptyTree,
     hierarchy |-> EmptyTree, futures |-> NoFutures, queries |-> {},
     wrote |-> FALSE, resp |-> EmptyTree]

Running(r) == {c \in DOMAIN hreq[r].futures : hreq[r].futures[c].st = "running"}
Queued(r) == {i \in 1..Len(Codes) :
                 /\ Codes[i] \in DOMAIN hreq[r].futures
                 /\ hreq[r].futures[Codes[i]].st = "queued"}

\* The store queries in flight: calls of session.query that have not returned.
InFlightOf(r) == (IF hreq[r].pc = "rootq" THEN 1 ELSE 0) + Cardinality(Running(r))
InFlight == InFlightOf(1) + InFlightOf(2)

HUnchanged == UNCHANGED <<box, kids, cfg, outputs, rreq>>

\* GreyhoundHierarchy up to `if cached_hcy:` (lines 142-177)
HierarchyStart(r) ==
    /\ hreq[r].pc = "idle"
    /\ nstarted < MaxRequests
    /\ cfg.concurrent \/ \A o \in Reqs : hreq[o].pc \in {"idle", "done", "raised"}
    /\ \E p \in HierarchyParams :
          LET lod_min == LodMin(p.depthBegin)
              lod_max == LodMax(p.depthEnd)
              bbox == HierarchyBBox(p.bounds, p.scale, p.offset)
              filename == Filename(p.table, p.column, lod_min, lod_max, bbox)
              cached_hcy == read_in_cache(filename)
          IN  hreq' = [hreq EXCEPT ![r] =
                  [IdleH EXCEPT
                     !.pc = IF Truthy(cached_hcy) THEN "done" ELSE "miss",
                     !.p = p, !.lod_min = lod_min, !.lod_max = lod_max,
                     !.bbox = bbox, !.filename = filename,
                     !.existed = filename \in DOMAIN cache,
                     !.cached = cached_hcy,
                     !.resp = IF Truthy(cached_hcy) THEN cached_hcy ELSE EmptyTree]]
    /\ nstarted' = nstarted + 1
    /\ UNCHANGED cache
    /\ HUnchanged

\* build_hierarchy_from_pg: the root's session.query is called (line 414)
RootQueryBegin(r) ==
    /\ hreq[r].pc = "miss"
    /\ hreq' = [hreq EXCEPT ![r].pc = "rootq",
                            ![r].queries = @ \cup {<<hreq[r].bbox, hreq[r].lod_min>>}]
    /\ UNCHANGED <<cache, nstarted>>
    /\ HUnchanged

\* build_hierarchy_from_pg with a root queried at LoD 0 whatever lod_min is
RootQueryEndAtZero(r) ==
    /\ hreq[r].pc = "rootq"
    /\ \E ord \in ScanOrders :
          LET lod == 0
              lod_max == hreq[r].lod_max
              res == session_query(sql_hierarchy(hreq[r].bbox, lod), ord)
          IN  IF res.kind = "error"
              THEN hreq' = [hreq EXCEPT ![r].pc = "raised"]
              ELSE hreq' = [hreq EXCEPT
                      ![r].pc = "pool",
                      ![r].hierarchy = [n |-> NodeCount(res, lod, lod_max),
                                        kids |-> <<>>],
                      ![r].futures =
                          IF lod + 1 <= lod_max
                          THEN [c \in CodeSet |->
                                   [st |-> IF \E i \in 1..cfg.maxconn : Codes[i] = c
                                           THEN "running" ELSE "queued",
                                    h |-> EmptyTree, exc |-> FALSE]]
                          ELSE NoFutures]
    /\ UNCHANGED <<cache, nstarted>>
    /\ HUnchanged

\* build_hierarchy_from_pg: the root's query returns; lines 416-457.  The
\* executor starts a thread for each of the first max_workers futures.
RootQueryEnd(r) ==
    /\ hreq[r].pc = "rootq"
    /\ \E ord \in ScanOrders :
          LET lod == hreq[r].lod_min
              lod_max == hreq[r].lod_max
              res == session_query(sql_hierarchy(hreq[r].bbox, lod), ord)
          IN  IF res.kind = "error"
              THEN hreq' = [hreq EXCEPT ![r].pc = "raised"]
              ELSE hreq' = [hreq EXCEPT
                      ![r].pc = "pool",
                      ![r].hierarchy = [n |-> NodeCount(res, lod, lod_max),
                                        kids |-> <<>>],
                      ![r].futures =
                          IF lod + 1 <= lod_max
                          THEN [c \in CodeSet |->
                                   [st |-> IF \E i \in 1..cfg.maxconn : Codes[i] = c
                                           THEN "running" ELSE "queued",
                                    h |-> EmptyTree, exc |-> FALSE]]
                          ELSE NoFutures]
    /\ UNCHANGED <<cache, nstarted>>
    /\ HUnchanged

\* The thread of the ThreadPoolExecutor that runs future c is done with it:
\* build_hierarchy_from_pg_single returns or raises, and the thread takes the
\* next future of the queue.
WorkerEnd(r, c) ==
    /\ hreq[r].pc = "pool"
    /\ c \in Running(r)
    /\ \E ord \in ScanOrders :
          LET got == build_hierarchy_from_pg_single(
                         hreq[r].lod_min + 1, hreq[r].lod_max,
                         SplitPar(hreq[r].bbox)[c], ord)
              next == {i \in Queued(r) : \A j \in Queued(r) : i <= j}
          IN  hreq' = [hreq EXCEPT
                  ![r].futures =
                      [d \in DOMAIN @ |->
                          IF d = c
                          THEN [st |-> "done", h |-> got.h, exc |-> got.exc]
                          ELSE IF \E i \in next : Codes[i] = d
                               THEN [@[d] EXCEPT !.st = "running"]
                               ELSE @[d]],
                  ![r].queries = @ \cup got.q]
    /\ UNCHANGED <<cache, nstarted>>
    /\ HUnchanged

\* lines 459-460: hierarchy[code] = hier.result() for every future
Collect(h, futures) ==
    [h EXCEPT !.kids = [c \in DOMAIN futures |-> futures[c].h]]

\* GreyhoundHierarchy without the write of the cache file
HierarchyFinishNoWrite(r) ==
    /\ hreq[r].pc = "pool"
    /\ \A c \in DOMAIN hreq[r].futures : hreq[r].futures[c].st = "done"
    /\ LET new_hcy == Collect(hreq[r].hierarchy, hreq[r].futures)
       IN  hreq' = [hreq EXCEPT ![r].pc = "done", ![r].wrote = TRUE,
                                ![r].hierarchy = new_hcy, ![r].resp = new_hcy]
    /\ UNCHANGED <<cache, nstarted, box, kids, cfg, outputs, rreq>>

\* GreyhoundHierarchy with a write of whatever the build has collected
HierarchyFinishAlways(r) ==
    /\ hreq[r].pc = "pool"
    /\ \A c \in DOMAIN hreq[r].futures : hreq[r].futures[c].st = "done"
    /\ LET new_hcy == Collect(hreq[r].hierarchy, hreq[r].futures)
           exc == \E c \in DOMAIN hreq[r].futures : hreq[r].futures[c].exc
       IN  /\ cache' = write_in_cache(new_hcy, hreq[r].filename)
           /\ hreq' = [hreq EXCEPT ![r].pc = IF exc THEN "raised" ELSE "done",
                                    ![r].wrote = TRUE,
                                    ![r].hierarchy = new_hcy,
                                    ![r].resp = IF exc THEN EmptyTree ELSE new_hcy]
    /\ UNCHANGED <<nstarted, box, kids, cfg, outputs, rreq>>

\* build_hierarchy_from_pg returns (lines 459-462) and GreyhoundHierarchy
\* writes the cache and answers (lines 179-183); a future's exception is
\* raised by result() and leaves GreyhoundHierarchy.
HierarchyFinish(r) ==
    /\ hreq[r].pc = "pool"
    /\ \A c \in DOMAIN hreq[r].futures : hreq[r].futures[c].st = "done"
    /\ IF \E c \in DOMAIN hreq[r].futures : hreq[r].futures[c].exc
       THEN /\ hreq' = [hreq EXCEPT ![r].pc = "raised"]
            /\ UNCHANGED cache
       ELSE LET new_hcy == Collect(hreq[r].hierarchy, hreq[r].futures)
            IN  /\ cache' = write_in_cache(new_hcy, hreq[r].filename)
                /\ hreq' = [hreq EXCEPT ![r].pc = "done", ![r].wrote = TRUE,
                                        ![r].hierarchy = new_hcy,
                                        ![r].resp = new_hcy]
    /\ UNCHANGED nstarted
    /\ HUnchanged

\* The response (or the error) has left the server.
HierarchyReturn(r) ==
    /\ hreq[r].pc \in {"done", "raised"}
    /\ hreq' = [hreq EXCEPT ![r] = IdleH]
    /\ UNCHANGED <<cache, nstarted>>
    /\ HUnchanged


(***************************************************************************)
(* GreyhoundRead.  Lengths (coordinates, offsets) are fixed-point numbers  *)
(* with three decimals: the integer v stands for v / 1000.                 *)
(***************************************************************************)
\* round(off, 2)
round2(off) == RoundTo(off, 10)

\* The names of the dimensions, in the order sorted() puts them.
NameOrder == <<"Intensity", "X", "Y", "Z">>

\* sorted(schema, key=lambda x: x['name']); a dimension is its name
SortByName(schema) ==
    SelectSeq(NameOrder, LAMBDA n : \E i \in DOMAIN schema : schema[i] = n)

\* line 50
Scales(scale) == <<scale, scale, scale>>

\* the triple of a request, with the offsets as they were sent
RequestedRaw(scale, offset, schema) ==
    <<Scales(scale), offset, SortByName(schema)>>

\* lines 71-74: the triple looked up; offset is the parsed offset
Requested(scale, offset, schema) ==
    <<Scales(scale), <<round2(offset[1]), round2(offset[2]), round2(offset[3])>>,
      SortByName(schema)>>

\* lines 76-81: the loop over session.lopocstable.outputs; the last match wins
LookupTriple(outs, requested) ==
    LET hits == {i \in DOMAIN outs :
                    requested = <<outs[i].scales, outs[i].offsets,
                                  SortByName(outs[i].point_schema)>>}
    IN  IF hits = {} THEN [found |-> FALSE, pcid |-> <<>>]
        ELSE [found |-> TRUE,
              pcid |-> <<outs[CHOOSE i \in hits : \A j \in hits : j <= i].pcid>>]

\* lines 56-62: the lookup of a normalization request, by schema alone
LookupSchema(outs, schema) ==
    LET hits == {i \in DOMAIN outs :
                    schema = SortByName(outs[i].point_schema)}
    IN  IF hits = {} THEN [found |-> FALSE, pcid |-> <<>>]
        ELSE [found |-> TRUE,
              pcid |-> <<outs[CHOOSE i \in hits : \A j \in hits : j <= i].pcid>>]

\* Session.add_output_schema, from the specification (section 4.3): one
\* atomic step of the store, which keeps the triple unique; on a conflict it
\* returns the pcid the triple already has.
add_output_schema(outs, scales, offsets, schema) ==
    LET same == {i \in DOMAIN outs :
                    /\ outs[i].scales = scales
                    /\ outs[i].offsets = offsets
                    /\ SortByName(outs[i].point_schema) = SortByName(schema)}
        fresh == 1 + Len(outs)
    IN  IF same # {}
        THEN [outputs |-> outs, pcid |-> outs[CHOOSE i \in same : TRUE].pcid]
        ELSE [outputs |-> Append(outs, [pcid |-> fresh, scales |-> scales,
                                        offsets |-> offsets,
                                        point_schema |-> schema]),
              pcid |-> fresh]

\* lines 94-112: the box queried; bounds is <<>> when the request has none
ReadBBox(bounds, depth, scale, offset) ==
    IF bounds = <<>> /\ depth = <<0>>
    THEN RootBox
    ELSE <<fadd(fmul(bounds[1], scale), offset[1]),
           fadd(fmul(bounds[2], scale), offset[2]),
           fadd(fmul(bounds[3], scale), offset[3]),
           fadd(fmul(bounds[4], scale), offset[1]),
           fadd(fmul(bounds[5], scale), offset[2]),
           fadd(fmul(bounds[6], scale), offset[3])>>

\* lines 114-117; depth is <<>> when the request has none
ReadLod(depth, depthEnd) ==
    IF depth # <<>> THEN 0 ELSE depthEnd - LOADER_GREYHOUND_MIN_DEPTH - 1

\* get_points_query with the range of a LoD counted from the first point
get_points_query_from0(b, schema_pcid, lod) ==
    [poly |-> <<b[1], b[2], b[4], b[5]>>,
     range_min |-> IF cfg.maxpp_patch # 0 THEN 0 ELSE SumPow4(lod),
     range_max |-> IF cfg.maxpp_patch # 0 THEN cfg.maxpp_patch ELSE SumPow4(lod + 1),
     zmin |-> b[3], zmax |-> b[6], limit |-> cfg.maxpp_query,
     order_by_morton |-> cfg.USE_MORTON, box |-> b, lod |-> lod,
     pcid |-> schema_pcid]

\* get_points_query: the point range, the Z range, the polygon, the limit and
\* the pcid the result is stamped with
get_points_query(b, schema_pcid, lod) ==
    LET maxppp == cfg.maxpp_patch
        maxppq == cfg.maxpp_query
        beg == SumPow4(lod)
        end == SumPow4(lod + 1)
    IN  [poly |-> <<b[1], b[2], b[4], b[5]>>,
         range_min |-> IF maxppp # 0 THEN 0 ELSE beg,
         range_max |-> IF maxppp # 0 THEN maxppp ELSE end - beg,
         zmin |-> b[3],
         zmax |-> b[6],
         limit |-> maxppq,
         order_by_morton |-> cfg.USE_MORTON,
         box |-> b,
         lod |-> lod,
         pcid |-> schema_pcid]

\* The compressed points of a patch of n points: a byte a point.
Payload(n) == [i \in 1..n |-> 160 + i]

\* Session.query(sql)[0][0] for a read query
session_query_points(sql, ord) ==
    IF sql.box \in cfg.faults THEN StoreError
    ELSE LET n == QueryCount(sql, ord)
         IN  IF n = 0 THEN NoPatch
             ELSE Patch(MkWkb(cfg.endian, sql.pcid, n, Payload(n)))

\* The step of the try block of get_points whose helper raises on the patch
\* returned, if any.
FailSteps == {"none", "npoints", "hexdata", "footer"}

\* get_points with the footer in the byte order of the patch
get_points_order(res, fail) ==
    IF res.kind = "patch" /\ fail = "none"
    THEN LET n == npoints_from_wkb_pcpatch(res.wkb)
         IN  [read |-> hexdata_from_wkb_pcpatch(res.wkb)
                       \o (IF res.wkb[1] = 1 THEN LE32(n) ELSE BE32(n)),
              npoints |-> n]
    ELSE [read |-> hexa_signed_int32(0), npoints |-> 0]

\* get_points, lines 357-387, on the result res of session.query(sql)[0][0]
get_points(res, fail) ==
    LET empty == <<>>
        zero == hexa_signed_int32(0)
    IN  IF res.kind # "patch" \/ fail = "npoints"
        THEN \* line 364 or line 372 raises: npoints is still 0
             [read |-> empty \o zero, npoints |-> 0]
        ELSE LET npoints == npoints_from_wkb_pcpatch(res.wkb)
                 hexbuffer == hexdata_from_wkb_pcpatch(res.wkb)
             IN  IF fail = "hexdata"
                 THEN \* line 375 raises: hexbuffer is still the empty bytearray
                      [read |-> empty \o zero, npoints |-> npoints]
                 ELSE IF fail = "footer"
                 THEN \* line 378 raises: hexbuffer holds the payload
                      [read |-> hexbuffer \o zero, npoints |-> npoints]
                 ELSE [read |-> hexbuffer \o hexa_signed_int32(npoints),
                       npoints |-> npoints]

\* The dimensions a request may ask for.
XYZ == <<"X", "Y", "Z">>
ZYX == <<"Z", "Y", "X">>
XYZI == <<"X", "Y", "Z", "Intensity">>

\* session.lopocstable.outputs when the server starts: the stored format
StoredOutputs ==
    <<[pcid |-> 1, scales |-> Scales(1), offsets |-> <<0, 0, 0>>,
       point_schema |-> XYZ]>>

\* The requests of the model: what a client may send.  A normalization
\* request has no offset, no scale and no bounds (<<>>).
ReadParams ==
    LET probes == {[schema |-> s, scale |-> <<>>, offset |-> <<>>,
                    bounds |-> <<>>, depth |-> <<0>>, depthEnd |-> 0] :
                      s \in {ZYX, XYZI}}
        whole == {[schema |-> t[1], scale |-> <<t[2]>>, offset |-> <<t[3], t[3], t[3]>>,
                   bounds |-> <<>>, depth |-> <<0>>, depthEnd |-> 0] :
                      t \in {<<XYZ, 1, 4>>, <<XYZ, 2, 0>>, <<ZYX, 2, 4>>,
                             <<XYZ, 1, 15>>}}
        nodes == {[schema |-> XYZ, scale |-> <<1>>, offset |-> <<0, 0, 0>>,
                   bounds |-> b, depth |-> <<>>, depthEnd |-> e] :
                      b \in {SplitPar(RootBox).swd}, e \in {10, MaxDepthEnd + 1}}
    IN  probes \cup whole \cup nodes

IdleR ==
    [pc |-> "idle", p |-> <<>>, seq |-> 0, requested |-> <<>>, found |-> FALSE,
     pcid |-> <<>>, added |-> FALSE, sql |-> <<>>, res |-> NoPatch,
     fail |-> "none", read |-> <<>>, npoints |-> 0]

RUnchanged == UNCHANGED <<box, kids, cfg, cache, hreq>>

IsProbe(p) == p.offset = <<>> /\ p.scale = <<>> /\ p.bounds = <<>>

\* a Read that queries with the pcid it expects of a registration to come
ReadStartEager(r) ==
    /\ rreq[r].pc = "idle"
    /\ nstarted < MaxRequests
    /\ \E p \in ReadParams :
          LET schema == SortByName(p.schema)
              requested == IF IsProbe(p) THEN <<>>
                           ELSE <<Scales(p.scale[1]),
                                  <<round2(p.offset[1]), round2(p.offset[2]),
                                    round2(p.offset[3])>>, schema>>
              hits == {i \in DOMAIN outputs :
                          /\ schema = SortByName(outputs[i].point_schema)
                          /\ IsProbe(p) \/ requested[1] = outputs[i].scales
                          /\ IsProbe(p) \/ requested[2] = outputs[i].offsets}
          IN  rreq' = [rreq EXCEPT ![r] =
                  [pc |-> "query", p |-> p, seq |-> nstarted + 1,
                   requested |-> requested, found |-> hits # {},
                   pcid |-> IF hits = {} THEN <<1 + Len(outputs)>>
                            ELSE <<outputs[CHOOSE i \in hits : TRUE].pcid>>,
                   added |-> FALSE, sql |-> <<>>, res |-> [kind |-> "none"],
                   fail |-> "none", read |-> <<>>, npoints |-> 0]]
    /\ nstarted' = nstarted + 1
    /\ UNCHANGED <<outputs, box, kids, cfg, cache, hreq>>

\* GreyhoundRead up to `if not found:` (lines 47-62 and 71-81)
ReadStart(r) ==
    /\ rreq[r].pc = "idle"
    /\ nstarted < MaxRequests
    /\ cfg.concurrent \/ \A o \in Reqs : rreq[o].pc \in {"idle", "done"}
    /\ \E p \in ReadParams :
          LET schema == SortByName(p.schema)
              requested == IF IsProbe(p) THEN <<>>
                           ELSE Requested(p.scale[1], p.offset, schema)
              hit == IF IsProbe(p) THEN LookupSchema(outputs, schema)
                     ELSE LookupTriple(outputs, requested)
          IN  rreq' = [rreq EXCEPT ![r] =
                  [IdleR EXCEPT
                     !.pc = IF hit.found THEN "query" ELSE "register",
                     !.p = p, !.seq = nstarted + 1, !.requested = requested,
                     !.found = hit.found, !.pcid = hit.pcid]]
    /\ nstarted' = nstarted + 1
    /\ UNCHANGED outputs
    /\ RUnchanged

\* the registration of a thread that takes its insert for the newest entry
ReadRegisterFresh(r) ==
    /\ rreq[r].pc = "register"
    /\ LET p == rreq[r].p
           reg == add_output_schema(outputs, rreq[r].requested[1],
                                    rreq[r].requested[2], SortByName(p.schema))
       IN  /\ ~IsProbe(p)
           /\ outputs' = reg.outputs
           /\ rreq' = [rreq EXCEPT ![r].pc = "query",
                                   ![r].pcid = <<1 + Len(outputs)>>,
                                   ![r].added = TRUE]
    /\ UNCHANGED <<nstarted, box, kids, cfg, cache, hreq>>

\* `if not found:` (lines 63-69 and 83-92): the schema is registered
ReadRegister(r) ==
    /\ rreq[r].pc = "register"
    /\ LET p == rreq[r].p
           schema == SortByName(p.schema)
           obj == outputs[1]
           reg == IF IsProbe(p)
                  THEN add_output_schema(outputs, obj.scales, obj.offsets, schema)
                  ELSE add_output_schema(outputs, rreq[r].requested[1],
                                         rreq[r].requested[2], schema)
       IN  /\ outputs' = reg.outputs
           /\ rreq' = [rreq EXCEPT ![r].pc = "query", ![r].pcid = <<reg.pcid>>,
                                   ![r].added = TRUE]
    /\ UNCHANGED nstarted
    /\ RUnchanged

\* lines 94-139: the box, the level of detail, get_points and the response
ReadQuery(r) ==
    /\ rreq[r].pc = "query"
    /\ LET p == rreq[r].p
           scale == IF p.scale = <<>> THEN 0 ELSE p.scale[1]
           bbox == ReadBBox(p.bounds, p.depth, scale, p.offset)
           lod == ReadLod(p.depth, p.depthEnd)
           sql == get_points_query(bbox, rreq[r].pcid[1], lod)
       IN  \E ord \in ScanOrders :
              LET res == session_query_points(sql, ord)
              IN  \E fail \in IF res.kind = "patch" THEN FailSteps ELSE {"none"} :
                     LET got == get_points(res, fail)
                     IN  rreq' = [rreq EXCEPT ![r].pc = "done", ![r].sql = sql,
                                              ![r].res = res, ![r].fail = fail,
                                              ![r].read = got.read,
                                              ![r].npoints = got.npoints]
    /\ UNCHANGED <<outputs, nstarted>>
    /\ RUnchanged


(***************************************************************************)
(* Configurations.                                                         *)
(***************************************************************************)
\* The boxes on which the store fails: none, the root, a child, a grandchild.
FaultSets ==
    { {}, {RootBox}, {SplitPar(RootBox).ned},
      {SplitSeq(SplitPar(RootBox).swd).swd} }

Knobs(c) ==
    (IF c.maxpp_patch # 0 THEN 1 ELSE 0)
    + (IF c.maxpp_query # 0 \/ ~c.USE_MORTON THEN 1 ELSE 0)
    + (IF c.ROOT_HCY # "" THEN 1 ELSE 0)
    + (IF c.faults # {} THEN 1 ELSE 0)
    + (IF c.endian # 1 THEN 1 ELSE 0)

Configs(concurrent, conns) ==
    {c \in [patches : Datasets, maxpp_patch : {0, 2}, maxpp_query : {0, 1},
            USE_MORTON : BOOLEAN, ROOT_HCY : {"", "root.hcy"}, DEPTH : {DEPTH},
            faults : FaultSets, concurrent : {concurrent}, maxconn : conns,
            endian : {1}] :
        Knobs(c) <= MaxKnobs}

NoSplit == <<>>

InitHierWith(concurrent, conns) ==
    /\ cfg \in Configs(concurrent, conns)
    /\ cache = <<>>
    /\ hreq = [r \in Reqs |-> IdleH]
    /\ nstarted = 0
    /\ box = RootBox
    /\ kids = NoSplit
    /\ outputs = StoredOutputs
    /\ rreq = [r \in Reqs |-> IdleR]

NextHier ==
    \E r \in Reqs :
        \/ HierarchyStart(r)
        \/ RootQueryBegin(r)
        \/ RootQueryEnd(r)
        \/ \E c \in CodeSet : WorkerEnd(r, c)
        \/ HierarchyFinish(r)
        \/ HierarchyReturn(r)

\* Hierarchy requests served one at a time
InitHier == InitHierWith(FALSE, {1})
SpecHier == InitHier /\ [][NextHier]_vars

\* Hierarchy requests served concurrently
InitHierC == InitHierWith(TRUE, {MaxConn})
SpecHierC == InitHierC /\ [][NextHier]_vars


(***************************************************************************)
(* The split of a box, as a function of the box.                           *)
(***************************************************************************)
Even(S) == {v \in S : v % 2 = 0 /\ fl(v) = v}

\* The boxes handed to the split: floats, on the grid of the even numbers.
SplitBoxes ==
    {<<x0, y0, z0, x1, y1, z1>> :
        x0 \in Even(-MaxCoord..MaxCoord), x1 \in Even(0..MaxCoord),
        y0 \in Even(0..MaxYZ), y1 \in Even(0..MaxYZ),
        z0 \in Even(0..MaxYZ), z1 \in Even(0..MaxYZ)}
    \cap {b \in Seq(Int) : b[1] <= b[4] /\ b[2] <= b[5] /\ b[3] <= b[6]}

DefaultCfg ==
    [patches |-> {}, maxpp_patch |-> 0, maxpp_query |-> 0, USE_MORTON |-> TRUE,
     ROOT_HCY |-> "", DEPTH |-> DEPTH, faults |-> {}, concurrent |-> FALSE,
     maxconn |-> 1, endian |-> 1]

InitSplit ==
    /\ box \in SplitBoxes
    /\ kids = NoSplit
    /\ cfg = DefaultCfg
    /\ cache = <<>>
    /\ hreq = [r \in Reqs |-> IdleH]
    /\ nstarted = 0
    /\ outputs = StoredOutputs
    /\ rreq = [r \in Reqs |-> IdleR]

\* Both builders split the box.
Split ==
    /\ kids = NoSplit
    /\ kids' = [par |-> SplitPar(box), seq |-> SplitSeq(box)]
    /\ UNCHANGED <<box, cfg, cache, hreq, outputs, rreq, nstarted>>

SpecSplit == InitSplit /\ [][Split]_vars


\* The configurations of the read model.
ReadConfigs ==
    {c \in [patches : Datasets, maxpp_patch : {0, 2}, maxpp_query : {0, 1},
            USE_MORTON : BOOLEAN, ROOT_HCY : {""}, DEPTH : {DEPTH},
            faults : {{}, {RootBox}}, concurrent : BOOLEAN, maxconn : {MaxConn},
            endian : {0, 1}] :
        Knobs(c) <= MaxKnobs}

InitRead ==
    /\ cfg \in ReadConfigs
    /\ outputs = StoredOutputs
    /\ rreq = [r \in Reqs |-> IdleR]
    /\ nstarted = 0
    /\ cache = <<>>
    /\ hreq = [r \in Reqs |-> IdleH]
    /\ box = RootBox
    /\ kids = NoSplit

NextRead ==
    \E r \in Reqs :
        \/ ReadStart(r)
        \/ ReadRegister(r)
        \/ ReadQuery(r)

\* Read requests, served concurrently or one at a time
SpecRead == InitRead /\ [][NextRead]_vars


(***************************************************************************)
(* C8.  The octants of a box.                                              *)
(***************************************************************************)
\* The octant codes by half: n is the upper Y half, e the upper X half and u
\* the upper Z half (s, w and d the lower ones).
North == {"nwd", "nwu", "ned", "neu"}
East == {"ned", "neu", "sed", "seu"}
Upper == {"nwu", "neu", "swu", "seu"}

\* The octant of box b that code c names: the halves of b cut at the midpoint
\* of each axis (the coordinates of SplitBoxes are even, so the midpoints are
\* integers).
Octant(b, c) ==
    LET mx == (b[1] + b[4]) \div 2
        my == (b[2] + b[5]) \div 2
        mz == (b[3] + b[6]) \div 2
    IN  <<IF c \in East THEN mx ELSE b[1],
          IF c \in North THEN my ELSE b[2],
          IF c \in Upper THEN mz ELSE b[3],
          IF c \in East THEN b[4] ELSE mx,
          IF c \in North THEN b[5] ELSE my,
          IF c \in Upper THEN b[6] ELSE mz>>

Inside(k, b) ==
    /\ b[1] <= k[1] /\ k[1] <= k[4] /\ k[4] <= b[4]
    /\ b[2] <= k[2] /\ k[2] <= k[5] /\ k[5] <= b[5]
    /\ b[3] <= k[3] /\ k[3] <= k[6] /\ k[6] <= b[6]

\* C8: for every box split by the parallel root builder or by the sequential
\* builder, the 8 child boxes lie inside the parent, split it at the midpoint
\* of each axis, cover it exactly and overlap only on the shared midpoint
\* planes (each child is the octant of the parent its code names: n/s the
\* upper/lower Y half, e/w the upper/lower X half, u/d the upper/lower Z
\* half), and each code names the same box in both builders.
C8_Original ==
    kids # NoSplit =>
        \A c \in CodeSet :
            /\ Inside(kids.par[c], box) /\ Inside(kids.seq[c], box)
            /\ kids.par[c] = Octant(box, c)
            /\ kids.seq[c] = Octant(box, c)
            /\ kids.par[c] = kids.seq[c]


(***************************************************************************)
(* C3.  Pruning of the empty nodes.                                        *)
(***************************************************************************)
RECURSIVE NoEmptyNode(_)
\* every octant key of h, at every level, maps to a non-empty node
NoEmptyNode(h) ==
    \A c \in DOMAIN h.kids : Truthy(h.kids[c]) /\ NoEmptyNode(h.kids[c])

\* C3: in every tree returned by a Hierarchy build, every octant key present
\* under any node, the root's eight children included, maps to a non-empty
\* node (one that carries n or has a present descendant).
C3_Original ==
    \A r \in Reqs : hreq[r].pc = "done" /\ hreq[r].wrote => NoEmptyNode(hreq[r].resp)

(***************************************************************************)
(* C5.  Store queries in flight.                                           *)
(***************************************************************************)
\* C5: while Hierarchy trees are built, by one request or by several
\* concurrent ones, the number of store queries in flight never exceeds the
\* size of the connection pool.
C5_Original == InFlight <= cfg.maxconn

(***************************************************************************)
(* C6.  Cache hits.                                                        *)
(***************************************************************************)
\* C6: a Hierarchy request whose cache entry exists returns exactly the cached
\* tree, whatever tree the entry holds, without running the build (no store
\* query) and without rewriting the entry.
C6_Original ==
    \A r \in Reqs :
        hreq[r].existed =>
            /\ hreq[r].pc = "done"
            /\ hreq[r].resp = hreq[r].cached
            /\ hreq[r].queries = {}
            /\ ~hreq[r].wrote

(***************************************************************************)
(* C7.  Store failures during a build.                                     *)
(***************************************************************************)
\* the boxes of the nodes present in h, the root (of box b) included
RECURSIVE PresentBoxes(_, _)
PresentBoxes(h, b) ==
    {b} \cup UNION {PresentBoxes(h.kids[c], SplitSeq(b)[c]) : c \in DOMAIN h.kids}

\* C7: if the store query of a node fails during a Hierarchy build, the node
\* is treated as empty and is absent from its parent, its siblings are still
\* built, and the call returns a tree instead of raising.
C7_Original ==
    \A r \in Reqs :
        (\E q \in hreq[r].queries : q[1] \in cfg.faults) =>
            /\ hreq[r].pc # "raised"
            /\ hreq[r].pc = "done" =>
                   \A b \in cfg.faults \ {hreq[r].bbox} :
                       b \notin PresentBoxes(hreq[r].resp, hreq[r].bbox)

(***************************************************************************)
(* C9.  Concurrent Hierarchy calls with the same parameters.               *)
(***************************************************************************)
\* Every query of the configuration has one answer: the SQL orders the rows
\* it limits.
Deterministic == cfg.USE_MORTON \/ cfg.maxpp_query = 0

\* Every cache file belongs to one set of parameters: no ROOT_HCY, the file
\* every request with lod_min = 0 shares.
OwnEntry == cfg.ROOT_HCY = ""

SameCall(r, o) == hreq[o].pc # "idle" /\ hreq[o].p = hreq[r].p

Returned(r) == hreq[r].pc = "done"

\* once r has returned, the cache entry holds r's tree, and a call with the
\* same parameters that has returned too has returned the same tree
SameTrees(r, o) ==
    /\ hreq[r].filename \in DOMAIN cache
    /\ cache[hreq[r].filename] = hreq[r].resp
    /\ Returned(o) => hreq[o].resp = hreq[r].resp

Served(r) ==
    rreq[r].pc = "done" /\ rreq[r].res.kind = "patch" /\ rreq[r].fail = "none"

\* the last 4 bytes of a response
Footer(read) == SubSeq(read, Len(read) - 3, Len(read))

C2_Original ==
    \A r \in Reqs :
        rreq[r].pc = "done" /\ ~Served(r) =>
            /\ rreq[r].read = <<0, 0, 0, 0>>
            /\ rreq[r].npoints = 0

(***************************************************************************)
(* C4.  Concurrent registration of an output schema.                       *)
(***************************************************************************)
\* the identity of an OutputSchema
Triple(o) == <<o.scales, o.offsets, SortByName(o.point_schema)>>

\* r is a Read with scale and offset that holds its pcid
Resolved(r) == rreq[r].requested # <<>> /\ rreq[r].pcid # <<>>

IsTripleOf(t, s, off, dims) ==
    /\ t[1] = <<s, s, s>>
    /\ \A i \in 1..3 :
           /\ t[2][i] % 10 = 0
           /\ \/ Abs(t[2][i] - off[i]) < 5
              \/ Abs(t[2][i] - off[i]) = 5 /\ (t[2][i] \div 10) % 2 = 0
    /\ Len(t[3]) = Len(dims)
    /\ \A i \in DOMAIN dims : \E j \in DOMAIN t[3] : t[3][j] = dims[i]
    /\ t[3] = SortByName(t[3])

\* r receives a Read with scale and offset in this step
Starts(r) ==
    rreq[r].pc = "idle" /\ rreq'[r].pc # "idle" /\ ~IsProbe(rreq'[r].p)

\* r registers the triple of a Read with scale and offset in this step
Registers(r) ==
    rreq[r].pc = "register" /\ rreq'[r].pc # "register" /\ ~IsProbe(rreq[r].p)

\* the entries of outs whose triple is the one the Read p asks for
EntriesOf(outs, p) ==
    {i \in DOMAIN outs : IsTripleOf(Triple(outs[i]), p.scale[1], p.offset, p.schema)}

\* C10: in a sequential run, a Read with scale and offset whose triple is not
\* among the OutputSchemas registers exactly one new OutputSchema, with a new
\* pcid; a following identical Read finds that entry, registers nothing and
\* uses the same pcid.
C10_Register ==
    [][\A r \in Reqs :
          ~cfg.concurrent =>
              /\ Starts(r) =>
                     LET p == rreq'[r].p
                         known == EntriesOf(outputs, p)
                     IN  /\ outputs' = outputs
                         /\ rreq'[r].found <=> known # {}
                         /\ rreq'[r].pc = IF known = {} THEN "register" ELSE "query"
                         /\ \A o \in Reqs :
                                rreq[o].pc = "done" /\ rreq[o].p = p =>
                                    /\ rreq'[r].found
                                    /\ rreq'[r].pcid = rreq[o].pcid
              /\ Registers(r) =>
                     LET p == rreq[r].p
                         new == outputs'[Len(outputs')]
                     IN  /\ outputs' = Append(outputs, new)
                         /\ IsTripleOf(Triple(new), p.scale[1], p.offset, p.schema)
                         /\ \A i \in DOMAIN outputs : outputs[i].pcid # new.pcid
                         /\ rreq'[r].pcid = <<new.pcid>>]_vars

\* In a sequential run, a Read whose offset is off the grid of two decimals
\* registered its triple, and the identical Read that followed found it.
C10_Witness ==
    /\ ~cfg.concurrent
    /\ \E r, o \in Reqs :
           /\ rreq[r].pc = "done" /\ rreq[o].pc = "done"
           /\ rreq[r].seq < rreq[o].seq
           /\ rreq[r].p = rreq[o].p /\ ~IsProbe(rreq[r].p)
           /\ rreq[r].p.offset[1] % 10 # 0
           /\ ~rreq[r].found /\ rreq[r].added
           /\ rreq[o].found /\ ~rreq[o].added
           /\ rreq[o].pcid = rreq[r].pcid
           /\ Len(outputs) = Len(StoredOutputs) + 1

(***************************************************************************)
(* C11.  The cap of max_points_per_patch.                                  *)
(***************************************************************************)
RECURSIVE Counts(_)
\* the values of n carried by the nodes of h
Counts(h) ==
    {h.n[i] : i \in DOMAIN h.n} \cup UNION {Counts(h.kids[c]) : c \in DOMAIN h.kids}

\* C11: when the dataset declares max_points_per_patch = M, the n of every
\* node of a Hierarchy tree is at most M, however many stored patches
\* intersect the box of the node.
C11_Original ==
    \A r \in Reqs :
        cfg.maxpp_patch # 0 /\ hreq[r].pc = "done" =>
            \A n \in Counts(hreq[r].resp) : n <= cfg.maxpp_patch

(***************************************************************************)
(* C12.  The level of detail of a Read.                                    *)
(***************************************************************************)
\* C12: Read resolves its LoD as 0 when depth is given and as
\* depthEnd - 8 - 1 otherwise, and the LoD it passes to the store query never
\* exceeds the configured maximum depth (Config.DEPTH).
C12_Original ==
    \A r \in Reqs :
        rreq[r].pc = "done" =>
            /\ rreq[r].sql.lod = IF rreq[r].p.depth # <<>> THEN 0
                                 ELSE rreq[r].p.depthEnd - 8 - 1
            /\ rreq[r].sql.lod <= cfg.DEPTH

(***************************************************************************)
(* C13.  A depthEnd above the configured maximum.                          *)
(***************************************************************************)
\* the request r serves asks for a lod_max above Config.DEPTH - 1
AboveMax(r) ==
    hreq[r].pc # "idle" /\ hreq[r].p.depthEnd - 8 - 1 > cfg.DEPTH - 1

\* o serves the request of r with the depthEnd that yields Config.DEPTH - 1
AtMax(o, r) ==
    /\ hreq[o].pc # "idle"
    /\ hreq[o].p = [hreq[r].p EXCEPT !.depthEnd = cfg.DEPTH + 8]

\* C13: a Hierarchy request whose depthEnd yields a lod_max above
\* Config.DEPTH - 1 behaves exactly like the request with lod_max equal to
\* Config.DEPTH - 1: it uses the same cache entry, issues the same store
\* queries (none deeper than Config.DEPTH - 1) and returns the same tree.
C13_Clamped ==
    \A r \in Reqs :
        AboveMax(r) =>
            /\ hreq[r].lod_max = cfg.DEPTH - 1
            /\ hreq[r].filename =
                   Filename(hreq[r].p.table, hreq[r].p.column, hreq[r].lod_min,
                            cfg.DEPTH - 1, hreq[r].bbox)
            /\ \A q \in hreq[r].queries : q[2] <= cfg.DEPTH - 1
            /\ \A o \in Reqs :
                   AtMax(o, r) =>
                       /\ hreq[o].filename = hreq[r].filename
                       /\ hreq[o].lod_min = hreq[r].lod_min
                       /\ hreq[o].lod_max = hreq[r].lod_max
                       /\ hreq[o].bbox = hreq[r].bbox
                       /\ Deterministic /\ Returned(o) /\ Returned(r) =>
                              /\ hreq[o].resp = hreq[r].resp
                              /\ hreq[o].wrote /\ hreq[r].wrote =>
                                     hreq[o].queries = hreq[r].queries

\* A request above the maximum built a tree with nodes at two levels under
\* the root, and the request at the maximum that followed returned it.
C13_Witness ==
    \E r, o \in Reqs :
        /\ AboveMax(r) /\ AtMax(o, r)
        /\ Returned(r) /\ Returned(o) /\ hreq[r].wrote
        /\ hreq[o].resp = hreq[r].resp
        /\ \E c \in DOMAIN hreq[r].resp.kids :
               DOMAIN hreq[r].resp.kids[c].kids # {}

(***************************************************************************)
(* C14.  The schema of a served payload is registered before the query.    *)
(***************************************************************************)
\* the pcid a patch carries: bytes 5..8, in the byte order of the patch
PcidOf(wkb) ==
    IF wkb[1] = 1 THEN FromLE(SubSeq(wkb, 6, 9)) ELSE FromBE(SubSeq(wkb, 6, 9))

\* r issues its point query in this step
Queries(r) == rreq[r].pc = "query" /\ rreq'[r].pc = "done"

\* C14: in every Read, the pcid stamped on the served payload belongs to an
\* OutputSchema that is among the registered OutputSchemas when the point
\* query is issued (the lookup-or-register step is over by then), on the
\* normalization path and on the scale/offset path.
C14_Registered ==
    [][\A r \in Reqs :
          Queries(r) =>
              \E i \in DOMAIN outputs :
                  /\ outputs[i].pcid = rreq'[r].sql.pcid
                  /\ SortByName(outputs[i].point_schema) = SortByName(rreq[r].p.schema)
                  /\ ~IsProbe(rreq[r].p) => Triple(outputs[i]) = rreq[r].requested
                  /\ rreq'[r].res.kind = "patch" =>
                         PcidOf(rreq'[r].res.wkb) = outputs[i].pcid]_vars

\* A normalization request and a request with scale and offset each
\* registered a schema and were served a patch.
C14_Witness ==
    \E r, o \in Reqs :
        /\ rreq[r].pc = "done" /\ rreq[o].pc = "done"
        /\ IsProbe(rreq[r].p) /\ ~IsProbe(rreq[o].p)
        /\ rreq[r].added /\ rreq[o].added
        /\ rreq[r].res.kind = "patch" /\ rreq[o].res.kind = "patch"

(***************************************************************************)
(* C15.  Nodes whose query returns no patch.                               *)
(***************************************************************************)
\* the query of box b at level of detail lod returns no patch
ReturnsNoPatch(b, lod) ==
    \A ord \in ScanOrders : session_query(sql_hierarchy(b, lod), ord).kind = "none"

\* C15: during a Hierarchy build, when the store query of a node returns no
\* patch, the node is absent from the tree and no store query is issued for
\* any of its descendants.
C15_Original ==
    \A r \in Reqs :
        \A q \in hreq[r].queries :
            ReturnsNoPatch(q[1], q[2]) =>
                /\ \A c \in CodeSet :
                       /\ <<SplitSeq(q[1])[c], q[2] + 1>> \notin hreq[r].queries
                       /\ <<SplitPar(q[1])[c], q[2] + 1>> \notin hreq[r].queries
                /\ hreq[r].pc = "done" /\ q[1] # hreq[r].bbox =>
                       q[1] \notin PresentBoxes(hreq[r].resp, hreq[r].bbox)

(***************************************************************************)
(* C16.  The levels of detail of a build.                                  *)
(***************************************************************************)
RECURSIVE Levelled(_, _, _, _)
\* h is a tree of box b whose root carries the count queried at lod, whose
\* nodes one level down carry the counts queried at lod + 1, and so on, with
\* no node below the level of lod_max
Levelled(h, b, lod, lod_max) ==
    /\ \E ord \in ScanOrders :
           LET n == QueryCount(sql_hierarchy(b, lod), ord)
           IN  h.n = IF n = 0 THEN <<>> ELSE <<n>>
    /\ lod >= lod_max => DOMAIN h.kids = {}
    /\ \A c \in DOMAIN h.kids : Levelled(h.kids[c], SplitSeq(b)[c], lod + 1, lod_max)

\* r has built a tree for a range of levels that is not empty
Built(r) ==
    hreq[r].pc = "done" /\ hreq[r].wrote /\ hreq[r].lod_min <= hreq[r].lod_max

\* C16: for lod_min <= lod_max the build starts at LoD lod_min: a node at
\* tree level k carries the count queried at LoD lod_min + k, no node exists
\* below level lod_max - lod_min, and when lod_min = lod_max the tree holds
\* only the n of the root and no children.
C16_Levels ==
    \A r \in Reqs :
        Built(r) =>
            /\ Levelled(hreq[r].resp, hreq[r].bbox, hreq[r].lod_min, hreq[r].lod_max)
            /\ hreq[r].lod_min = hreq[r].lod_max => DOMAIN hreq[r].resp.kids = {}

\* A build from LoD 1 to LoD 2 returned a root and a child that carry points,
\* and a build with lod_min = lod_max > 0 returned a root that carries points.
C16_Witness ==
    \E r, o \in Reqs :
        /\ Built(r) /\ hreq[r].lod_min = 1 /\ hreq[r].lod_max = 2
        /\ hreq[r].resp.n # <<>>
        /\ \E c \in DOMAIN hreq[r].resp.kids : hreq[r].resp.kids[c].n # <<>>
        /\ Built(o) /\ hreq[o].lod_min = 1 /\ hreq[o].lod_max = 1
        /\ hreq[o].resp.n # <<>>

(***************************************************************************)
(* C17.  The point range of a level of detail.                             *)
(***************************************************************************)
\* 4^0 + ... + 4^(d-1)
Geometric4(d) == (4 ^ d - 1) \div 3

\* C17: without max_points_per_patch the range of LoD d starts at the sum of
\* 4^i for i < d and counts 4^d points, so the ranges of successive LoDs are
\* disjoint and contiguous; the hierarchy query and the read query compute
\* the same range for the same LoD and dataset.
C17_Ranges ==
    \A r \in Reqs :
        rreq[r].pc = "done" =>
            LET q == rreq[r].sql
                h == sql_hierarchy(q.box, q.lod)
                h1 == sql_hierarchy(q.box, q.lod + 1)
                q1 == get_points_query(q.box, q.pcid, q.lod + 1)
            IN  /\ h.range_min = q.range_min /\ h.range_max = q.range_max
                /\ cfg.maxpp_patch = 0 =>
                       /\ q.range_min = Geometric4(q.lod)
                       /\ q.range_max = 4 ^ q.lod
                       /\ q1.range_min = q.range_min + q.range_max
                       /\ h1.range_min = h.range_min + h.range_max

\* A Read at a LoD above 0, without max_points_per_patch, was served a patch.
C17_Witness ==
    \E r \in Reqs :
        /\ rreq[r].pc = "done" /\ cfg.maxpp_patch = 0
        /\ rreq[r].sql.lod > 0 /\ rreq[r].res.kind = "patch"

(***************************************************************************)
(* The name of the cache file, as a function of the request.               *)
(***************************************************************************)
\* The requests whose cache files are named: (table, column, lod_min,
\* lod_max, bbox).
KeyParams ==
    {<<t, c, lod_min, lod_max, b>> :
        t \in {"a", "t", "a_b"}, c \in {"c", "b_c"}, lod_min \in 0..1,
        lod_max \in 1..2, b \in {RootBox, SplitPar(RootBox).swd}}

InitKey ==
    /\ cfg \in {[DefaultCfg EXCEPT !.ROOT_HCY = f] : f \in {"", "root.hcy"}}
    /\ kids = NoSplit
    /\ box = RootBox
    /\ cache = <<>>
    /\ hreq = [r \in Reqs |-> IdleH]
    /\ nstarted = 0
    /\ outputs = StoredOutputs
    /\ rreq = [r \in Reqs |-> IdleR]

\* Two requests name their cache files (lines 164-169).
NameFiles ==
    /\ kids = NoSplit
    /\ \E k1, k2 \in KeyParams :
           kids' = <<[key |-> k1,
                      filename |-> Filename(k1[1], k1[2], k1[3], k1[4], k1[5])],
                     [key |-> k2,
                      filename |-> Filename(k2[1], k2[2], k2[3], k2[4], k2[5])]>>
    /\ UNCHANGED <<box, cfg, cache, hreq, outputs, rreq, nstarted>>

SpecKey == InitKey /\ [][NameFiles]_vars

(***************************************************************************)
(* C18.  The key of a cache entry.                                         *)
(***************************************************************************)
\* C18 as stated: the cache entry a Hierarchy request reads and writes is
\* determined by (table, column, lod_min, lod_max, bbox): under every
\* configuration, two requests that differ in any of the five never read or
\* overwrite the same entry.
C18_Original ==
    kids # NoSplit =>
        (kids[1].key # kids[2].key => kids[1].filename # kids[2].filename)

\* the names that hold no underscore
PlainNames == {"a", "t", "c"}

\* the request of key k is named by the format of lines 167-169, with a
\* table and a column that hold no underscore
OwnName(k) ==
    /\ ~(k[3] = 0 /\ cfg.ROOT_HCY # "")
    /\ k[1] \in PlainNames /\ k[2] \in PlainNames

\* C18 as amended: the same, for two requests that are not sent to
\* Config.ROOT_HCY (lod_min = 0 with ROOT_HCY configured) and whose table
\* and column names hold no underscore.
C18_Amended ==
    kids # NoSplit /\ OwnName(kids[1].key) /\ OwnName(kids[2].key) =>
        (kids[1].key # kids[2].key => kids[1].filename # kids[2].filename)

\* Two requests that differ in lod_max alone, with ROOT_HCY configured and
\* lod_min above 0, have named their files.
C18_Witness ==
    /\ kids # NoSplit /\ cfg.ROOT_HCY # ""
    /\ OwnName(kids[1].key) /\ OwnName(kids[2].key)
    /\ kids[1].key[4] # kids[2].key[4]
    /\ \A i \in {1, 2, 3, 5} : kids[1].key[i] = kids[2].key[i]

(***************************************************************************)
(* C19.  When the cache is written.                                        *)
(***************************************************************************)
\* r ends its build and answers in this step
Finishes(r) == hreq[r].pc = "pool" /\ hreq'[r].pc = "done"

\* r starts in this step, with the parameters of a request o whose build raised
Retries(r, o) ==
    /\ hreq[r].pc = "idle" /\ hreq'[r].pc # "idle"
    /\ hreq[o].pc = "raised" /\ hreq'[r].p = hreq[o].p

\* C19: GreyhoundHierarchy writes a cache entry only on a cache miss (the
\* lookup returned no tree) and only after the root query and all eight
\* child subtrees of the build have completed; if the build raises, no cache
\* entry is created or changed, so a later identical request rebuilds
\* instead of reading a partial tree.
C19_WriteLast ==
    [][/\ cache' # cache =>
              \E r \in Reqs :
                  /\ Finishes(r)
                  /\ ~Truthy(hreq[r].cached)
                  /\ <<hreq[r].bbox, hreq[r].lod_min>> \in hreq[r].queries
                  /\ \A c \in DOMAIN hreq[r].futures :
                         hreq[r].futures[c].st = "done" /\ ~hreq[r].futures[c].exc
                  /\ hreq[r].lod_min + 1 <= hreq[r].lod_max =>
                         DOMAIN hreq[r].futures = CodeSet
                  /\ cache' = (hreq[r].filename :> hreq'[r].resp) @@ cache
                  /\ DOMAIN hreq'[r].resp.kids = DOMAIN hreq[r].futures
       /\ \A r \in Reqs :
              /\ hreq[r].pc # "raised" /\ hreq'[r].pc = "raised" => cache' = cache
              /\ \A o \in Reqs :
                     Retries(r, o) /\ hreq'[r].filename \notin DOMAIN cache =>
                         hreq'[r].pc = "miss"]_vars

\* The build of a request raised in one of its workers, nothing is in the
\* cache, and the identical request that followed is building again.
C19_Witness ==
    \E r, o \in Reqs :
        /\ hreq[o].pc = "raised" /\ hreq[o].futures # NoFutures
        /\ hreq[r].p = hreq[o].p /\ hreq[r].pc = "pool"
        /\ cache = <<>>

=============================================================================
